---- MODULE Spec2Model ----
(***************************************************************************)
(* Two instances of the Rock-Paper-Scissors application (rps_app.py) on    *)
(* one LAN: one hosts (class Server), one joins (class Client).  Each      *)
(* instance has a control (GUI) thread that runs the App event handlers    *)
(* and the callbacks posted with gui.after(0, ...), and background         *)
(* threads (broadcast listener, session read loop) that run the Server /   *)
(* Client methods.  Threads are interleaved statement group by statement   *)
(* group wherever they touch fields that another thread reads or writes.   *)
(***************************************************************************)
EXTENDS Integers, Sequences, FiniteSets, TLC

\* ---- bounds of the model ------------------------------------------------
\* Spec: largest number of rounds the host selects, and how many times in a
\* behaviour a user presses Disconnect (or leaves) and goes through with it
MaxRounds == 2
MaxQuits == 1
\* SpecDuel: the same for a short game that both users may leave
DuelRounds == 1
DuelQuits == 2
\* SpecRound: largest value of a profile counter in the initial state
MaxCount == 1
\* SpecClose: rounds and disconnects of a game whose end is looked at closely
CloseRounds == 1
CloseQuits == 1
\* SpecLobby: the same for the sessions that follow a handshake
LobbyRounds == 2
LobbyQuits == 1
LiveRounds == 1
LiveQuits == 1
ChatRounds == 2
ChatQuits == 1
MaxChats == 2
MaxJunk == 1
LongRounds == 3

\* ---- program constants ---------------------------------------------------
\* lobby_host_slider: from_=1, to=5
SliderMin == 1
SliderMax == 5

\* ---- values -------------------------------------------------------------
H == "host"
J == "joiner"
Sides == {H, J}
Other(s) == IF s = H THEN J ELSE H

\* Python None for the choice and username fields, and for the round fields
\* (None and 0 are both falsy in `if self.current_round:`)
None == "None"
NoRound == 0

Rock == "Rock"
Paper == "Paper"
Scissors == "Scissors"
Choices == {Rock, Paper, Scissors}
\* the choices pressed in the sessions of Spec and SpecDuel (SpecRound draws
\* from all of Choices)
Played == {Rock, Paper}

Username(s) == IF s = H THEN "hostuser" ELSE "joinuser"

VARIABLES
    \* App fields, one copy per instance
    user_profile,       \* [wins, loses, ties]
    opponent_username,
    player_choice,
    opponent_choice,
    total_rounds,
    current_round,
    allow_gui_update,
    available_servers,  \* joiner: result of the last discover_servers
    \* Gui widgets that gate the handlers
    rps_button,         \* game_rps_button is "normal"
    conn_button,        \* status_connection_button is "normal"
    lobby,              \* lobby buttons are "normal"
    \* control thread
    afterq,             \* callbacks posted with gui.after(0, ...), FIFO
    gui,                \* position of the control thread inside a handler
    \* background threads
    broadcast_thread,   \* host: Server.broadcast_listen
    server_thread,      \* host: Server.start
    client_thread,      \* joiner: Client.start, the thread App.client_thread refers to
    orphan_thread,      \* joiner: a Client.start thread that App.client_thread no
                        \* longer refers to (event_join started another one)
    client_connected,   \* Server.client_connected
    \* sockets and network
    sock,               \* the stream socket of each side (client_socket)
    listening,          \* host: server_socket is bound and listening
    established,        \* the joiner's connect() completed
    tcp,                \* tcp[s]: session messages in flight to side s
    udp_host,           \* datagrams in flight to the host's broadcast port
    lookup_resp,        \* datagrams in flight to the joiner's search socket
    ack_resp,           \* datagrams in flight to the joiner's connect socket
    \* history (not program state)
    oc_rnd,             \* the sender's round of the stored opponent_choice
    results,            \* results[s][k]: how side s resolved round k
    forfeits,           \* actors of the dropout_resolution calls applied, in order
    recv_disc,          \* the DISCONNECT a read loop took: its stage, and
                        \* current_round at that moment
    quits,              \* number of disconnects a user went through with
    \* chat
    textbox,            \* the peer_chat texts written to the main textbox, in order
    chat_sent,          \* history: the texts each side sent as CHAT, in order
    unknown_read,       \* history: buffers of no known kind each read loop took
    waiting             \* history: 'Waiting for ...' lines shown in the current round

appVars == <<user_profile, opponent_username, player_choice, opponent_choice,
             total_rounds, current_round, allow_gui_update, available_servers>>
guiVars == <<rps_button, conn_button, lobby, afterq, gui>>
thrVars == <<broadcast_thread, server_thread, client_thread, orphan_thread,
             client_connected>>
netVars == <<sock, listening, established, tcp, udp_host, lookup_resp, ack_resp>>
histVars == <<oc_rnd, results, forfeits, recv_disc, quits>>
chatVars == <<textbox, chat_sent, unknown_read, waiting>>
vars == <<appVars, guiVars, thrVars, netVars, histVars, chatVars>>

\* ---- threads -------------------------------------------------------------
Alive(t) == t \notin {"none", "done"}

\* `self.server_thread and self.server_thread.is_alive()` on the host,
\* `self.client_thread and self.client_thread.is_alive()` on the joiner
SessionAlive(s) == IF s = H THEN Alive(server_thread) ELSE Alive(client_thread)

\* gui.after(0, f): append to the control thread's queue
Post(q, s, f) == [q EXCEPT ![s] = Append(@, f)]

\* ---- stream socket -------------------------------------------------------
\* socket.send(m) on side s; ok tells whether the call returned normally.
\* Sending on a socket that is missing, unconnected or closed raises.  Data
\* sent after the peer closed is lost; that send returns or raises.
Send(s, m, ok) ==
    \/ /\ sock[s] = "open"
       /\ sock[Other(s)] # "closed"
       /\ ok
       /\ tcp' = [tcp EXCEPT ![Other(s)] = Append(@, m)]
    \/ /\ sock[s] = "open"
       /\ sock[Other(s)] = "closed"
       /\ tcp' = tcp
    \/ /\ sock[s] # "open"
       /\ ~ok
       /\ tcp' = tcp

GameMsg(c, r) == [kind |-> "GAME", payload |-> c, rnd |-> r]
DisconnectMsg(stage) == [kind |-> "DISCONNECT", payload |-> stage, rnd |-> NoRound]

\* ---- Round engine --------------------------------------------------------
choices(c) == CASE c = Rock -> 0 [] c = Paper -> 1 [] c = Scissors -> 2

\* the operands taken the other way round
result_swapped(p, o) == (choices(o) - choices(p)) % 3

\* result = (choices[player_choice] - choices[opponent_choice]) % 3
result(p, o) == (choices(p) - choices(o)) % 3

ResultName(r) == CASE r = 0 -> "Tie" [] r = 1 -> "Win" [] OTHER -> "Lose"

\* the counter update of determine_results
Count(up, r) ==
    IF r = 0 THEN [up EXCEPT !.ties = @ + 1]
    ELSE IF r = 1 THEN [up EXCEPT !.wins = @ + 1]
    ELSE [up EXCEPT !.loses = @ + 1]

\* the round in progress left out
ForfeitedRounds_off(total, current) == total - current

\* rounds = self.total_rounds - (self.current_round - 1)
ForfeitedRounds(total, current) == total - (current - 1)

\* ---- initial state: both applications constructed, users logged in --------
Init ==
    /\ user_profile = [s \in Sides |-> [wins |-> 0, loses |-> 0, ties |-> 0]]
    /\ opponent_username = [s \in Sides |-> None]
    /\ player_choice = [s \in Sides |-> None]
    /\ opponent_choice = [s \in Sides |-> None]
    /\ total_rounds = [s \in Sides |-> NoRound]
    /\ current_round = [s \in Sides |-> NoRound]
    /\ allow_gui_update = [s \in Sides |-> TRUE]
    /\ available_servers = {}
    /\ rps_button = [s \in Sides |-> FALSE]
    /\ conn_button = [s \in Sides |-> FALSE]
    /\ lobby = [s \in Sides |-> TRUE]
    /\ afterq = [s \in Sides |-> <<>>]
    /\ gui = [s \in Sides |-> "idle"]
    /\ broadcast_thread = "none"
    /\ server_thread = "none"
    /\ client_thread = "none"
    /\ orphan_thread = "none"
    /\ client_connected = FALSE
    /\ sock = [s \in Sides |-> "none"]
    /\ listening = FALSE
    /\ established = FALSE
    /\ tcp = [s \in Sides |-> <<>>]
    /\ udp_host = {}
    /\ lookup_resp = {}
    /\ ack_resp = {}
    /\ oc_rnd = [s \in Sides |-> NoRound]
    /\ results = [s \in Sides |-> [k \in SliderMin..SliderMax |-> "none"]]
    /\ forfeits = [s \in Sides |-> <<>>]
    /\ recv_disc = [s \in Sides |-> [stage |-> "", rnd |-> NoRound]]
    /\ quits = 0
    /\ textbox = [s \in Sides |-> <<>>]
    /\ chat_sent = [s \in Sides |-> <<>>]
    /\ unknown_read = [s \in Sides |-> 0]
    /\ waiting = [s \in Sides |-> 0]

\* the control thread of side s is between handlers and takes user input
UserInput(s) == gui[s] = "idle"

\* a datagram sent to the host's broadcast port reaches the listener's socket
\* only while that socket is bound
ToHost(d) == IF broadcast_thread = "listen" THEN udp_host \cup {d} ELSE udp_host

Datagram(k, a, b) == [kind |-> k, a |-> a, b |-> b]

\* the datagram socket of a Client.start thread of the joiner is bound to the
\* broadcast port (between bind and the close after recvfrom)
ConnectBound == client_thread = "wait_ack" \/ orphan_thread = "wait_ack"

\* ---- lobby: hosting ------------------------------------------------------
\* App.event_host with the slider at n: one hosting attempt per behaviour
event_host(n) ==
    /\ UserInput(H) /\ lobby[H]
    /\ broadcast_thread = "none"
    /\ total_rounds' = [total_rounds EXCEPT ![H] = n]
    /\ broadcast_thread' = "listen"
    /\ lobby' = [lobby EXCEPT ![H] = FALSE]
    /\ conn_button' = [conn_button EXCEPT ![H] = TRUE]
    /\ UNCHANGED <<user_profile, opponent_username, player_choice, opponent_choice,
                   current_round, allow_gui_update, available_servers,
                   rps_button, afterq, gui,
                   server_thread, client_thread, client_connected, orphan_thread,
                   netVars, histVars, chatVars>>

\* ---- the payload of CONNECT<requested_ip>,<username> ---------------------------
\* A datagram record holds the requested address in a and the rest of the
\* payload in b.  Absent: the payload has no comma; Undecodable: the payload
\* is not UTF-8, so .decode('utf-8') raises.
Absent == "<absent>"
Undecodable == "<not utf-8>"

\* commas inside a user name
Commas(text) == IF text \in {"str,anger", "host,user"} THEN 1 ELSE 0

\* len(payload.split(','))
FieldCount(d) == IF d.b = Absent THEN 1 ELSE 2 + Commas(d.b)

\* data[len(b"CONNECT"):].decode('utf-8') returns
Decodes(d) == d.b # Undecodable

\* `if len(data_values) == 2:`
TwoFields(d) == FieldCount(d) = 2

\* `if requested_ip == self.network.local_ip:`
ForThisHost(d) == d.a = H

\* the listener goes on after an acknowledged CONNECT
ListenerAfterAck_on == "listen"

\* `break` after gui.after(0, launch_server): the listener ends
ListenerAfterAck == "done"

\* the listener goes on after the DISCONNECT datagram
ListenerAfterCancel_on == "listen"

\* `break` after `if data == b"DISCONNECT"`: the listener ends
ListenerAfterCancel == "done"

\* the reply carries no number of rounds
LookupReply_none == Datagram("RESP", Username(H), NoRound)

\* f"{server_port},{username},{self.app.total_rounds}" (the port is the same
\* constant in every reply)
LookupReply == Datagram("RESP", Username(H), total_rounds[H])

\* Server.broadcast_listen: one pass of the receive loop
broadcast_listen(d) ==
    /\ broadcast_thread = "listen"
    /\ d \in udp_host
    /\ \/ /\ d.kind = "LOOKUP"
          /\ lookup_resp' = IF gui[J] = "search"
                            THEN lookup_resp \cup {LookupReply}
                            ELSE lookup_resp
          /\ udp_host' = udp_host \ {d}
          /\ UNCHANGED <<opponent_username, ack_resp, afterq, broadcast_thread>>
       \/ /\ d.kind = "CONNECT"
          /\ Decodes(d) /\ TwoFields(d) /\ ForThisHost(d)
          /\ opponent_username' = [opponent_username EXCEPT ![H] = d.b]
          /\ ack_resp' = IF d.b = Username(J) /\ ConnectBound
                         THEN ack_resp \cup {Datagram("ACK", "", NoRound)}
                         ELSE ack_resp
          /\ afterq' = Post(afterq, H, "launch_server")
          /\ broadcast_thread' = ListenerAfterAck
          /\ udp_host' = {}
          /\ UNCHANGED lookup_resp
       \/ /\ d.kind = "CONNECT"
          /\ Decodes(d) /\ ~(TwoFields(d) /\ ForThisHost(d))
          /\ udp_host' = udp_host \ {d}
          /\ UNCHANGED <<opponent_username, lookup_resp, ack_resp, afterq,
                         broadcast_thread>>
       \/ /\ d.kind = "CONNECT"
          /\ ~Decodes(d)
          /\ broadcast_thread' = "done"
          /\ udp_host' = {}
          /\ UNCHANGED <<opponent_username, lookup_resp, ack_resp, afterq>>
       \/ /\ d.kind = "DISCONNECT"
          /\ afterq' = IF allow_gui_update[H]
                       THEN Post(afterq, H, "network_disconnected")
                       ELSE afterq
          /\ broadcast_thread' = ListenerAfterCancel
          /\ udp_host' = {}
          /\ UNCHANGED <<opponent_username, lookup_resp, ack_resp>>
    /\ UNCHANGED <<user_profile, player_choice, opponent_choice, total_rounds,
                   current_round, allow_gui_update, available_servers,
                   rps_button, conn_button, lobby, gui,
                   server_thread, client_thread, client_connected, orphan_thread,
                   sock, listening, established, tcp, histVars, chatVars>>

\* Server.stop_listen
stop_listen == udp_host' = ToHost(Datagram("DISCONNECT", "", NoRound))

\* ---- lobby: joining ------------------------------------------------------
\* App.event_join_search, up to the LOOKUP broadcast of discover_servers
event_join_search ==
    /\ UserInput(J) /\ lobby[J]
    /\ client_thread = "none"
    /\ gui' = [gui EXCEPT ![J] = "search"]
    /\ udp_host' = ToHost(Datagram("LOOKUP", "", NoRound))
    /\ UNCHANGED <<appVars, rps_button, conn_button, lobby, afterq,
                   thrVars, sock, listening, established, tcp,
                   lookup_resp, ack_resp, histVars, chatVars>>

\* ---- the lookup response <serverPort>,<username>,<totalRounds> -----------------
\* A response record holds the user name in a and the rounds in b (the port is
\* the same for all).  a = Absent: the text has no comma; a = Undecodable: the
\* datagram is not UTF-8.
\* len(data.decode('utf-8').split(','))
ResponseFields(r) == IF r.a = Absent THEN 1 ELSE 3 + Commas(r.a)

\* `if len(data_values) == 3:`
ThreeFields(r) == ResponseFields(r) = 3

\* The lists the receive loop can return for the datagrams that arrive before
\* the timeout: every response with three fields, unless a datagram fails to
\* decode; that exception ends the loop, and the responses that arrived
\* before it, whichever they were, are what is returned.
Collected(arrived) ==
    LET good == {r \in arrived : r.a # Undecodable /\ ThreeFields(r)} IN
    IF \E r \in arrived : r.a = Undecodable THEN SUBSET good ELSE {good}

\* Network.discover_servers: the receive timeout ends the collection
discover_servers ==
    /\ gui[J] = "search"
    /\ available_servers' \in Collected(lookup_resp)
    /\ lookup_resp' = {}
    /\ gui' = [gui EXCEPT ![J] = "idle"]
    /\ UNCHANGED <<user_profile, opponent_username, player_choice, opponent_choice,
                   total_rounds, current_round, allow_gui_update,
                   rps_button, conn_button, lobby, afterq,
                   thrVars, sock, listening, established, tcp,
                   udp_host, ack_resp, histVars, chatVars>>

\* App.event_join: one join attempt per behaviour
event_join(rec) ==
    /\ UserInput(J) /\ lobby[J]
    /\ client_thread = "none"
    /\ rec \in available_servers
    /\ opponent_username' = [opponent_username EXCEPT ![J] = rec.a]
    /\ total_rounds' = [total_rounds EXCEPT ![J] = rec.b]
    /\ client_thread' = "start"
    /\ UNCHANGED <<user_profile, player_choice, opponent_choice, current_round,
                   allow_gui_update, available_servers, guiVars,
                   broadcast_thread, server_thread, client_connected, orphan_thread,
                   netVars, histVars, chatVars>>

\* ---- session read loop (Server.start and Client.start) --------------------
\* every stage counts as a dropout
IsDropout_any(game_state) == TRUE

\* `if game_state == "mid_game":`
IsDropout(game_state) == game_state = "mid_game"

\* ---- bytes on the stream ---------------------------------------------------
\* what send() puts on the stream for message m
Wire(m) == m.kind \o m.payload

\* the buffer recv(1024) returns when the bytes of m1 and of m2 are both there:
\* one buffer, which starts with the kind of m1
Glued(m1, m2) == [kind |-> m1.kind, payload |-> m1.payload \o Wire(m2), rnd |-> m1.rnd]

\* gui.after(0, network_chat, msg, "peer_chat") as an entry of the queue
ChatCallback(msg) == "network_chat:" \o msg

\* where the read loop goes after a buffer that starts with none of
\* DISCONNECT, CHAT, GAME: no branch matches and `while True` takes the next
\* recv
AfterUnknown == "recv"

\* one pass of the loop body on the buffer m, up to the write of
\* opponent_choice; `to` is where the thread is afterwards.  A buffer that
\* starts with none of DISCONNECT, CHAT, GAME passes all three tests.
LoopData(s, m, to) ==
    \/ /\ m.kind = "DISCONNECT"
       /\ to = "closing"
       /\ afterq' = IF IsDropout(m.payload)
                    THEN Post(afterq, s, "dropout_resolution") ELSE afterq
       /\ recv_disc' = [recv_disc EXCEPT ![s] =
                          [stage |-> m.payload, rnd |-> current_round[s]]]
       /\ UNCHANGED <<opponent_choice, oc_rnd, unknown_read>>
    \/ /\ m.kind = "CHAT"
       /\ to = "recv"
       /\ afterq' = Post(afterq, s, ChatCallback(m.payload))
       /\ UNCHANGED <<recv_disc, opponent_choice, oc_rnd, unknown_read>>
    \/ /\ m.kind = "GAME"
       /\ to = "game"
       /\ opponent_choice' = [opponent_choice EXCEPT ![s] = m.payload]
       /\ oc_rnd' = [oc_rnd EXCEPT ![s] = m.rnd]
       /\ UNCHANGED <<afterq, recv_disc, unknown_read>>
    \/ /\ m.kind \notin {"DISCONNECT", "CHAT", "GAME"}
       /\ to = AfterUnknown
       /\ unknown_read' = [unknown_read EXCEPT ![s] = @ + 1]
       /\ UNCHANGED <<afterq, recv_disc, opponent_choice, oc_rnd>>

\* one pass of `while True: data = recv(1024) ...` on side s when recv returns
\* the bytes of one message, or no bytes
LoopRecv(s, to) ==
    \/ /\ tcp[s] # <<>>
       /\ tcp' = [tcp EXCEPT ![s] = Tail(@)]
       /\ LoopData(s, Head(tcp[s]), to)
    \/ /\ tcp[s] = <<>>
       /\ sock[Other(s)] = "closed"
       /\ to = "closing"
       /\ UNCHANGED <<tcp, afterq, recv_disc, opponent_choice, oc_rnd, unknown_read>>

\* the same pass when recv returns the bytes of two messages at once
LoopRecvGlued(s, to) ==
    /\ Len(tcp[s]) >= 2
    /\ tcp' = [tcp EXCEPT ![s] = Tail(Tail(@))]
    /\ LoopData(s, Glued(tcp[s][1], tcp[s][2]), to)

\* `if self.app.player_choice: after(determine_results) else: after(network_chat)`
\* The posted network_chat only writes "<opponent> has chosen..." to the text
\* box, which is not part of the state; it is not queued here.
LoopGame(s) ==
    afterq' = IF player_choice[s] # None
              THEN Post(afterq, s, "determine_results") ELSE afterq

\* Server.start: socket, bind, listen
ServerListen ==
    /\ server_thread = "bind"
    /\ listening' = TRUE
    /\ server_thread' = "accept"
    /\ UNCHANGED <<appVars, guiVars, broadcast_thread, client_thread, client_connected, orphan_thread,
                   sock, established, tcp, udp_host, lookup_resp, ack_resp, histVars, chatVars>>

\* Server.start: accept returns, network_connected is posted
ServerAccept ==
    /\ server_thread = "accept"
    /\ listening /\ established
    /\ sock' = [sock EXCEPT ![H] = "open"]
    /\ afterq' = Post(afterq, H, "network_connected")
    /\ server_thread' = "connected"
    /\ UNCHANGED <<appVars, rps_button, conn_button, lobby, gui,
                   broadcast_thread, client_thread, client_connected, orphan_thread,
                   listening, established, tcp, udp_host, lookup_resp, ack_resp,
                   histVars, chatVars>>

\* Server.start: accept raises because Server.stop closed the listening socket
ServerAcceptError ==
    /\ server_thread = "accept"
    /\ ~listening
    /\ server_thread' = "finally"
    /\ UNCHANGED <<appVars, guiVars, broadcast_thread, client_thread, client_connected, orphan_thread,
                   netVars, histVars, chatVars>>

\* Server.start: self.client_connected = True
ServerSetConnected ==
    /\ server_thread = "connected"
    /\ client_connected' = TRUE
    /\ server_thread' = "recv"
    /\ UNCHANGED <<appVars, guiVars, broadcast_thread, client_thread, orphan_thread,
                   netVars, histVars, chatVars>>

ServerRecv ==
    /\ server_thread = "recv"
    /\ \E to \in {"recv", "game", "closing"} : LoopRecv(H, to) /\ server_thread' = to
    /\ UNCHANGED <<user_profile, opponent_username, player_choice, total_rounds,
                   current_round, allow_gui_update, available_servers,
                   rps_button, conn_button, lobby, gui,
                   broadcast_thread, client_thread, client_connected, orphan_thread,
                   sock, listening, established, udp_host, lookup_resp, ack_resp,
                   results, forfeits, quits, textbox, chat_sent, waiting>>

\* Server.start: recv returns two messages in one buffer
ServerRecvGlued ==
    /\ server_thread = "recv"
    /\ \E to \in {"recv", "game", "closing"} : LoopRecvGlued(H, to) /\ server_thread' = to
    /\ UNCHANGED <<user_profile, opponent_username, player_choice, total_rounds,
                   current_round, allow_gui_update, available_servers,
                   rps_button, conn_button, lobby, gui,
                   broadcast_thread, client_thread, client_connected, orphan_thread,
                   sock, listening, established, udp_host, lookup_resp, ack_resp,
                   results, forfeits, quits, textbox, chat_sent, waiting>>

ServerGame ==
    /\ server_thread = "game"
    /\ LoopGame(H)
    /\ server_thread' = "recv"
    /\ UNCHANGED <<appVars, rps_button, conn_button, lobby, gui,
                   broadcast_thread, client_thread, client_connected, orphan_thread,
                   netVars, histVars, chatVars>>

\* Server.start: client_socket.close(); server_socket.close()
ServerClose ==
    /\ server_thread = "closing"
    /\ sock' = [sock EXCEPT ![H] = "closed"]
    /\ listening' = FALSE
    /\ server_thread' = "finally"
    /\ UNCHANGED <<appVars, guiVars, broadcast_thread, client_thread, client_connected, orphan_thread,
                   established, tcp, udp_host, lookup_resp, ack_resp, histVars, chatVars>>

\* Server.start: the finally clause
ServerFinally ==
    /\ server_thread = "finally"
    /\ client_connected' = FALSE
    /\ afterq' = IF allow_gui_update[H]
                 THEN Post(afterq, H, "network_disconnected") ELSE afterq
    /\ server_thread' = "done"
    /\ UNCHANGED <<appVars, rps_button, conn_button, lobby, gui,
                   broadcast_thread, client_thread, orphan_thread, netVars, histVars, chatVars>>

\* Client.start: sockets created, CONNECT request sent
ClientRequest ==
    /\ client_thread = "start"
    /\ sock' = [sock EXCEPT ![J] = "created"]
    /\ udp_host' = ToHost(Datagram("CONNECT", H, Username(J)))
    /\ client_thread' = "wait_ack"
    /\ UNCHANGED <<appVars, guiVars, broadcast_thread, server_thread, client_connected, orphan_thread,
                   listening, established, tcp, lookup_resp, ack_resp, histVars, chatVars>>

\* any response counts as an acknowledgement
IsAck_any(response) == TRUE

\* `if response.startswith(b"ACK"):`
IsAck(response) == response.kind = "ACK"

\* Client.start: recvfrom returns a response
ClientResponse(r) ==
    /\ client_thread = "wait_ack"
    /\ r \in ack_resp
    /\ ack_resp' = {}
    /\ client_thread' = IF IsAck(r) THEN "connect" ELSE "closing"
    /\ UNCHANGED <<appVars, guiVars, broadcast_thread, server_thread, client_connected, orphan_thread,
                   sock, listening, established, tcp, udp_host, lookup_resp, histVars, chatVars>>

\* the timeout is swallowed and the thread goes on to connect
AfterTimeout_connect == "connect"

\* socket.timeout leaves the try block for the except clause and finally
AfterTimeout == "closing"

\* Client.start: recvfrom raises socket.timeout, no datagram having arrived
ClientTimeout ==
    /\ client_thread = "wait_ack"
    /\ ack_resp = {}
    /\ ack_resp' = {}
    /\ client_thread' = AfterTimeout
    /\ UNCHANGED <<appVars, guiVars, broadcast_thread, server_thread, client_connected, orphan_thread,
                   sock, listening, established, tcp, udp_host, lookup_resp, histVars, chatVars>>

\* Client.start: client_socket.connect; refused unless the host listens
ClientConnect ==
    /\ client_thread = "connect"
    /\ IF listening
       THEN /\ established' = TRUE
            /\ sock' = [sock EXCEPT ![J] = "open"]
            /\ afterq' = Post(afterq, J, "network_connected")
            /\ client_thread' = "recv"
       ELSE /\ client_thread' = "closing"
            /\ UNCHANGED <<established, sock, afterq>>
    /\ UNCHANGED <<appVars, rps_button, conn_button, lobby, gui,
                   broadcast_thread, server_thread, client_connected, orphan_thread,
                   listening, tcp, udp_host, lookup_resp, ack_resp, histVars, chatVars>>

ClientRecv ==
    /\ client_thread = "recv"
    /\ \E to \in {"recv", "game", "closing"} : LoopRecv(J, to) /\ client_thread' = to
    /\ UNCHANGED <<user_profile, opponent_username, player_choice, total_rounds,
                   current_round, allow_gui_update, available_servers,
                   rps_button, conn_button, lobby, gui,
                   broadcast_thread, server_thread, client_connected, orphan_thread,
                   sock, listening, established, udp_host, lookup_resp, ack_resp,
                   results, forfeits, quits, textbox, chat_sent, waiting>>

\* Client.start: recv returns two messages in one buffer
ClientRecvGlued ==
    /\ client_thread = "recv"
    /\ \E to \in {"recv", "game", "closing"} : LoopRecvGlued(J, to) /\ client_thread' = to
    /\ UNCHANGED <<user_profile, opponent_username, player_choice, total_rounds,
                   current_round, allow_gui_update, available_servers,
                   rps_button, conn_button, lobby, gui,
                   broadcast_thread, server_thread, client_connected, orphan_thread,
                   sock, listening, established, udp_host, lookup_resp, ack_resp,
                   results, forfeits, quits, textbox, chat_sent, waiting>>

ClientGame ==
    /\ client_thread = "game"
    /\ LoopGame(J)
    /\ client_thread' = "recv"
    /\ UNCHANGED <<appVars, rps_button, conn_button, lobby, gui,
                   broadcast_thread, server_thread, client_connected, orphan_thread,
                   netVars, histVars, chatVars>>

\* Client.start, finally: self.client_socket.close()
ClientClose ==
    /\ client_thread = "closing"
    /\ sock' = [sock EXCEPT ![J] = "closed"]
    /\ client_thread' = "finally"
    /\ UNCHANGED <<appVars, guiVars, broadcast_thread, server_thread, client_connected, orphan_thread,
                   listening, established, tcp, udp_host, lookup_resp, ack_resp,
                   histVars, chatVars>>

\* Client.start, finally: network_disconnected is posted
ClientFinally ==
    /\ client_thread = "finally"
    /\ afterq' = IF allow_gui_update[J]
                 THEN Post(afterq, J, "network_disconnected") ELSE afterq
    /\ client_thread' = "done"
    /\ UNCHANGED <<appVars, rps_button, conn_button, lobby, gui,
                   broadcast_thread, server_thread, client_connected, orphan_thread,
                   netVars, histVars, chatVars>>

\* ---- session read loop: recv raises ---------------------------------------
\* recv(1024) on side s raises OSError: the connection was reset by the peer
\* (its socket is gone), or the local socket object was closed under the
\* reader.  Unread data is discarded.
LoopError(s) ==
    /\ sock[s] = "closed" \/ sock[Other(s)] = "closed"
    /\ tcp' = [tcp EXCEPT ![s] = <<>>]

\* Server.start: recv raises; `except Exception` shows a message box, the two
\* close() calls after the loop are skipped
ServerRecvError ==
    /\ server_thread = "recv"
    /\ LoopError(H)
    /\ server_thread' = "finally"
    /\ UNCHANGED <<appVars, guiVars, broadcast_thread, client_thread, orphan_thread,
                   client_connected, sock, listening, established,
                   udp_host, lookup_resp, ack_resp, histVars, chatVars>>

\* Client.start: recv raises; `except Exception` shows a message box, the
\* finally clause follows
ClientRecvError ==
    /\ client_thread = "recv"
    /\ LoopError(J)
    /\ client_thread' = "closing"
    /\ UNCHANGED <<appVars, guiVars, broadcast_thread, server_thread, orphan_thread,
                   client_connected, sock, listening, established,
                   udp_host, lookup_resp, ack_resp, histVars, chatVars>>

\* ---- the process of an instance ends without running any handler ----------
\* (killed, power loss): its threads stop where they are and the operating
\* system closes its sockets; nothing is sent by the application
Killed(t) == IF Alive(t) THEN "killed" ELSE t

Crash(s) ==
    /\ gui[s] # "dead"
    /\ gui' = [gui EXCEPT ![s] = "dead"]
    /\ afterq' = [afterq EXCEPT ![s] = <<>>]
    /\ sock' = [sock EXCEPT ![s] = IF @ = "none" THEN "none" ELSE "closed"]
    /\ IF s = H
       THEN /\ broadcast_thread' = Killed(broadcast_thread)
            /\ server_thread' = Killed(server_thread)
            /\ listening' = FALSE
            /\ udp_host' = {}
            /\ UNCHANGED <<client_thread, orphan_thread, lookup_resp, ack_resp>>
       ELSE /\ client_thread' = Killed(client_thread)
            /\ orphan_thread' = Killed(orphan_thread)
            /\ lookup_resp' = {}
            /\ ack_resp' = {}
            /\ UNCHANGED <<broadcast_thread, server_thread, listening, udp_host>>
    /\ UNCHANGED <<appVars, rps_button, conn_button, lobby, client_connected,
                   established, tcp, histVars, chatVars>>

\* ---- lobby: other instances on the network ---------------------------------
\* a third instance asks the host for a connection: its Client.start sends
\* CONNECT<host ip>,<username>
StrangerConnect ==
    /\ broadcast_thread = "listen"
    /\ Datagram("CONNECT", H, "stranger") \notin udp_host
    /\ udp_host' = ToHost(Datagram("CONNECT", H, "stranger"))
    /\ UNCHANGED <<appVars, guiVars, thrVars, sock, listening, established, tcp,
                   lookup_resp, ack_resp, histVars, chatVars>>

\* CONNECT datagrams of other instances that the host must not take: sent to
\* another address, with one field, with three fields, or not UTF-8
BadConnects ==
    {Datagram("CONNECT", "elsewhere", "other"),
     Datagram("CONNECT", H, Absent),
     Datagram("CONNECT", H, "str,anger"),
     Datagram("CONNECT", H, Undecodable)}

StrangerBadConnect(d) ==
    /\ broadcast_thread = "listen"
    /\ d \in BadConnects
    /\ d \notin udp_host
    /\ udp_host' = ToHost(d)
    /\ UNCHANGED <<appVars, guiVars, thrVars, sock, listening, established, tcp,
                   lookup_resp, ack_resp, histVars, chatVars>>

\* datagrams sent to the searching socket that are no lookup response: one
\* field, four fields (a user name with a comma), or not UTF-8
BadResponses ==
    {Datagram("RESP", Absent, 1),
     Datagram("RESP", "host,user", 1),
     Datagram("RESP", Undecodable, 1)}

StrayResponse(r) ==
    /\ gui[J] = "search"
    /\ r \in BadResponses
    /\ r \notin lookup_resp
    /\ lookup_resp' = lookup_resp \cup {r}
    /\ UNCHANGED <<appVars, guiVars, thrVars, sock, listening, established, tcp,
                   udp_host, ack_resp, histVars, chatVars>>

\* a datagram that is not ACK (the LOOKUP of a third instance's search) reaches
\* the datagram socket on which a Client.start thread waits for its ACK
StrayDatagram ==
    /\ ConnectBound
    /\ Datagram("LOOKUP", "", NoRound) \notin ack_resp
    /\ ack_resp' = ack_resp \cup {Datagram("LOOKUP", "", NoRound)}
    /\ UNCHANGED <<appVars, guiVars, thrVars, sock, listening, established, tcp,
                   udp_host, lookup_resp, histVars, chatVars>>

\* ---- lobby: Join pressed again while a Client.start thread waits -------------
\* App.event_join while the thread of an earlier event_join waits for its ACK
\* (the lobby is still enabled).  App.client_thread now refers to a new thread;
\* the step includes the first statements of that thread: it replaces
\* Client.client_socket and its bind raises, the port being held by the
\* waiting thread, so that only its finally clause is left.
event_join_again(rec) ==
    /\ UserInput(J) /\ lobby[J]
    /\ client_thread = "wait_ack" /\ orphan_thread = "none"
    /\ rec \in available_servers
    /\ opponent_username' = [opponent_username EXCEPT ![J] = rec.a]
    /\ total_rounds' = [total_rounds EXCEPT ![J] = rec.b]
    /\ orphan_thread' = "wait_ack"
    /\ client_thread' = "closing"
    /\ sock' = [sock EXCEPT ![J] = "created"]
    /\ UNCHANGED <<user_profile, player_choice, opponent_choice, current_round,
                   allow_gui_update, available_servers, guiVars,
                   broadcast_thread, server_thread, client_connected,
                   listening, established, tcp, udp_host, lookup_resp, ack_resp,
                   histVars, chatVars>>

\* Client.start in the earlier thread: recvfrom returns a response
OrphanResponse(r) ==
    /\ orphan_thread = "wait_ack"
    /\ r \in ack_resp
    /\ ack_resp' = {}
    /\ orphan_thread' = IF IsAck(r) THEN "connect" ELSE "closing"
    /\ UNCHANGED <<appVars, guiVars, broadcast_thread, server_thread, client_thread,
                   client_connected, sock, listening, established, tcp,
                   udp_host, lookup_resp, histVars, chatVars>>

\* Client.start in the earlier thread: recvfrom raises socket.timeout
OrphanTimeout ==
    /\ orphan_thread = "wait_ack"
    /\ ack_resp = {}
    /\ ack_resp' = {}
    /\ orphan_thread' = "closing"
    /\ UNCHANGED <<appVars, guiVars, broadcast_thread, server_thread, client_thread,
                   client_connected, sock, listening, established, tcp,
                   udp_host, lookup_resp, histVars, chatVars>>

\* Client.start in the earlier thread: self.client_socket.connect, on the
\* socket object the later thread created; it raises if that object is closed
\* already or the host does not listen
OrphanConnect ==
    /\ orphan_thread = "connect"
    /\ IF sock[J] = "created" /\ listening
       THEN /\ established' = TRUE
            /\ sock' = [sock EXCEPT ![J] = "open"]
            /\ afterq' = Post(afterq, J, "network_connected")
            /\ orphan_thread' = "recv"
       ELSE /\ orphan_thread' = "closing"
            /\ UNCHANGED <<established, sock, afterq>>
    /\ UNCHANGED <<appVars, rps_button, conn_button, lobby, gui,
                   broadcast_thread, server_thread, client_thread, client_connected,
                   listening, tcp, udp_host, lookup_resp, ack_resp, histVars, chatVars>>

\* Client.start in the earlier thread: one pass of the read loop (no GAME
\* message is sent in the behaviours that have such a thread)
OrphanRecv ==
    /\ orphan_thread = "recv"
    /\ sock[J] = "open"
    /\ LoopRecv(J, "closing")
    /\ orphan_thread' = "closing"
    /\ UNCHANGED <<user_profile, opponent_username, player_choice, total_rounds,
                   current_round, allow_gui_update, available_servers,
                   rps_button, conn_button, lobby, gui,
                   broadcast_thread, server_thread, client_thread, client_connected,
                   sock, listening, established, udp_host, lookup_resp, ack_resp,
                   results, forfeits, quits, textbox, chat_sent, waiting>>

\* Client.start in the earlier thread: recv raises, the later thread having
\* closed the socket object both use
OrphanRecvError ==
    /\ orphan_thread = "recv"
    /\ LoopError(J)
    /\ orphan_thread' = "closing"
    /\ UNCHANGED <<appVars, guiVars, broadcast_thread, server_thread, client_thread,
                   client_connected, sock, listening, established,
                   udp_host, lookup_resp, ack_resp, histVars, chatVars>>

\* Client.start in the earlier thread, finally: self.client_socket.close()
OrphanClose ==
    /\ orphan_thread = "closing"
    /\ sock' = [sock EXCEPT ![J] = "closed"]
    /\ orphan_thread' = "finally"
    /\ UNCHANGED <<appVars, guiVars, broadcast_thread, server_thread, client_thread,
                   client_connected, listening, established, tcp,
                   udp_host, lookup_resp, ack_resp, histVars, chatVars>>

\* Client.start in the earlier thread, finally: network_disconnected is posted
OrphanFinally ==
    /\ orphan_thread = "finally"
    /\ afterq' = IF allow_gui_update[J]
                 THEN Post(afterq, J, "network_disconnected") ELSE afterq
    /\ orphan_thread' = "done"
    /\ UNCHANGED <<appVars, rps_button, conn_button, lobby, gui,
                   broadcast_thread, server_thread, client_thread, client_connected,
                   netVars, histVars, chatVars>>

\* ---- Server.stop / Client.stop --------------------------------------------
\* the server stops without telling the client
ServerStop_silent(stage, ok) == ok /\ tcp' = tcp /\ listening' = FALSE

\* Server.stop(stage): before Server.start created server_socket the close
\* fails on None
ServerStop(stage, ok) ==
    IF client_connected
    THEN Send(H, DisconnectMsg(stage), ok) /\ listening' = listening
    ELSE /\ tcp' = tcp
         /\ IF server_thread = "bind"
            THEN ~ok /\ listening' = listening
            ELSE ok /\ listening' = FALSE

ClientStop(stage, ok) == Send(J, DisconnectMsg(stage), ok) /\ listening' = listening

\* `if server_thread alive: server.stop(stage) elif client_thread alive: client.stop(stage)`
Stop(s, stage, ok) ==
    IF ~SessionAlive(s) THEN ok /\ tcp' = tcp /\ listening' = listening
    ELSE IF s = H THEN ServerStop(stage, ok) ELSE ClientStop(stage, ok)

\* ---- control thread: round handlers --------------------------------------
\* the choice buttons take a press in any state
CanChoose_always(s) == TRUE

\* game_rps_button is "normal": event_rps_chosen disables it first thing,
\* determine_results and network_connected enable it
CanChoose(s) == rps_button[s]

\* App.event_rps_chosen up to the send of GAME<value>; a send that raises
\* ends the handler
event_rps_chosen(s, value) ==
    /\ UserInput(s) /\ CanChoose(s)
    /\ rps_button' = [rps_button EXCEPT ![s] = FALSE]
    /\ player_choice' = [player_choice EXCEPT ![s] = value]
    /\ \E ok \in BOOLEAN :
          /\ IF SessionAlive(s)
             THEN Send(s, GameMsg(value, current_round[s]), ok)
             ELSE ok /\ tcp' = tcp
          /\ gui' = [gui EXCEPT ![s] = IF ok THEN "chosen" ELSE "idle"]
    /\ UNCHANGED <<user_profile, opponent_username, opponent_choice, total_rounds,
                   current_round, allow_gui_update, available_servers,
                   conn_button, lobby, afterq, thrVars,
                   sock, listening, established, udp_host, lookup_resp, ack_resp,
                   histVars, chatVars>>

\* App.determine_results, first half: the result is computed and counted.
\* choices[x] for an x that is no key raises KeyError, which ends the handler.
DetermineCount(s) ==
    IF player_choice[s] \notin Choices \/ opponent_choice[s] \notin Choices
    THEN /\ gui' = [gui EXCEPT ![s] = "idle"]
         /\ UNCHANGED <<user_profile, results>>
    ELSE LET r == result(player_choice[s], opponent_choice[s]) IN
         /\ user_profile' = [user_profile EXCEPT ![s] = Count(@, r)]
         /\ results' = [results EXCEPT ![s][current_round[s]] = ResultName(r)]
         /\ gui' = [gui EXCEPT ![s] = "counted"]

\* the handler never finds a remote choice
RemotePresent_never(s) == FALSE

\* `if self.opponent_choice:` a remote choice is stored
RemotePresent(s) == opponent_choice[s] # None

\* App.event_rps_chosen, `if self.opponent_choice: ... else: ...`
event_rps_decide(s) ==
    /\ gui[s] = "chosen"
    /\ IF RemotePresent(s)
       THEN DetermineCount(s) /\ waiting' = waiting
       ELSE /\ gui' = [gui EXCEPT ![s] = "idle"]
            /\ waiting' = [waiting EXCEPT ![s] = @ + 1]
            /\ UNCHANGED <<user_profile, results>>
    /\ UNCHANGED <<opponent_username, player_choice, opponent_choice, total_rounds,
                   current_round, allow_gui_update, available_servers,
                   rps_button, conn_button, lobby, afterq, thrVars,
                   netVars, oc_rnd, forfeits, recv_disc, quits,
                   textbox, chat_sent, unknown_read>>

\* the 'Waiting for ...' lines of the current round after a step of the
\* control thread of side s: none when the step began another round
RoundWaiting(s) ==
    IF current_round'[s] = current_round[s] THEN waiting
    ELSE [waiting EXCEPT ![s] = 0]

\* a round is skipped
Incremented_skip(r) == r + 2

\* `self.current_round += 1`
Incremented(r) == r + 1

\* the last round is followed by one more
MoreRounds_le(current, total) == current <= total

\* `if self.current_round < self.total_rounds:`
MoreRounds(current, total) == current < total

\* App.determine_results, second half: next round or game complete
determine_advance(s) ==
    /\ gui[s] = "counted"
    /\ gui' = [gui EXCEPT ![s] = "idle"]
    /\ IF MoreRounds(current_round[s], total_rounds[s])
       THEN /\ current_round' = [current_round EXCEPT ![s] = Incremented(@)]
            /\ rps_button' = [rps_button EXCEPT ![s] = TRUE]
            /\ player_choice' = [player_choice EXCEPT ![s] = None]
            /\ opponent_choice' = [opponent_choice EXCEPT ![s] = None]
            /\ oc_rnd' = [oc_rnd EXCEPT ![s] = NoRound]
            /\ UNCHANGED <<tcp, listening>>
       ELSE /\ IF s = H /\ Alive(server_thread)
               THEN \E ok \in BOOLEAN : ServerStop("game_complete", ok)
               ELSE UNCHANGED <<tcp, listening>>
            /\ UNCHANGED <<current_round, rps_button, player_choice,
                           opponent_choice, oc_rnd>>
    /\ UNCHANGED <<user_profile, opponent_username, total_rounds,
                   allow_gui_update, available_servers,
                   conn_button, lobby, afterq, thrVars,
                   sock, established, udp_host, lookup_resp, ack_resp,
                   results, forfeits, recv_disc, quits, textbox, chat_sent, unknown_read>>
    /\ waiting' = RoundWaiting(s)

\* App.dropout_resolution(actor); None - 1 raises TypeError
DropoutResolution(s, actor) ==
    IF current_round[s] = NoRound \/ total_rounds[s] = NoRound
    THEN UNCHANGED <<user_profile, forfeits>>
    ELSE LET rounds == ForfeitedRounds(total_rounds[s], current_round[s]) IN
         /\ user_profile' = [user_profile EXCEPT ![s] =
                IF actor = "player" THEN [@ EXCEPT !.wins = @ + rounds]
                ELSE IF actor = "quitter" THEN [@ EXCEPT !.loses = @ + rounds]
                ELSE @]
         /\ forfeits' = [forfeits EXCEPT ![s] = Append(@, actor)]

\* ---- control thread: callbacks posted by the background threads ----------
\* the callback posted last runs first
Callback_lifo(s, f) ==
    /\ gui[s] = "idle"
    /\ afterq[s] # <<>>
    /\ afterq[s][Len(afterq[s])] = f
    /\ afterq' = [afterq EXCEPT ![s] = SubSeq(@, 1, Len(@) - 1)]

\* the control thread takes the oldest posted callback
Callback(s, f) ==
    /\ gui[s] = "idle"
    /\ afterq[s] # <<>>
    /\ Head(afterq[s]) = f
    /\ afterq' = [afterq EXCEPT ![s] = Tail(@)]

\* App.launch_server
launch_server ==
    /\ Callback(H, "launch_server")
    /\ server_thread' = "bind"
    /\ UNCHANGED <<appVars, rps_button, conn_button, lobby, gui,
                   broadcast_thread, client_thread, client_connected, orphan_thread,
                   netVars, histVars, chatVars>>

\* App.network_connected
network_connected(s) ==
    /\ Callback(s, "network_connected")
    /\ current_round' = [current_round EXCEPT ![s] = 1]
    /\ rps_button' = [rps_button EXCEPT ![s] = TRUE]
    /\ lobby' = [lobby EXCEPT ![s] = FALSE]
    /\ conn_button' = [conn_button EXCEPT ![s] = TRUE]
    /\ UNCHANGED <<user_profile, opponent_username, player_choice, opponent_choice,
                   total_rounds, allow_gui_update, available_servers,
                   gui, thrVars, netVars, histVars, textbox, chat_sent, unknown_read>>
    /\ waiting' = RoundWaiting(s)

\* the round number survives the end of the session
ClearedRound_kept(s) == current_round[s]

\* `self.current_round = None`
ClearedRound(s) == NoRound

\* App.network_disconnected
network_disconnected(s) ==
    /\ Callback(s, "network_disconnected")
    /\ rps_button' = [rps_button EXCEPT ![s] = FALSE]
    /\ lobby' = [lobby EXCEPT ![s] = TRUE]
    /\ conn_button' = [conn_button EXCEPT ![s] = FALSE]
    /\ player_choice' = [player_choice EXCEPT ![s] = None]
    /\ opponent_choice' = [opponent_choice EXCEPT ![s] = None]
    /\ opponent_username' = [opponent_username EXCEPT ![s] = None]
    /\ total_rounds' = [total_rounds EXCEPT ![s] = NoRound]
    /\ current_round' = [current_round EXCEPT ![s] = ClearedRound(s)]
    /\ oc_rnd' = [oc_rnd EXCEPT ![s] = NoRound]
    /\ UNCHANGED <<user_profile, allow_gui_update, available_servers,
                   gui, thrVars, netVars, results, forfeits, recv_disc, quits, textbox, chat_sent, unknown_read>>
    /\ waiting' = RoundWaiting(s)

\* App.determine_results run as a posted callback
determine_results(s) ==
    /\ Callback(s, "determine_results")
    /\ DetermineCount(s)
    /\ UNCHANGED <<opponent_username, player_choice, opponent_choice, total_rounds,
                   current_round, allow_gui_update, available_servers,
                   rps_button, conn_button, lobby, thrVars,
                   netVars, oc_rnd, forfeits, recv_disc, quits, chatVars>>

\* App.dropout_resolution("player") run as a posted callback
dropout_resolution(s) ==
    /\ Callback(s, "dropout_resolution")
    /\ DropoutResolution(s, "player")
    /\ UNCHANGED <<opponent_username, player_choice, opponent_choice, total_rounds,
                   current_round, allow_gui_update, available_servers,
                   rps_button, conn_button, lobby, gui, thrVars,
                   netVars, oc_rnd, results, recv_disc, quits, chatVars>>

\* ---- control thread: disconnect ------------------------------------------
\* App.event_disconnect with current_round set, answered "Proceed":
\* stop("mid_game"), then dropout_resolution("quitter").  A stop that raises
\* ends the handler.  The confirmation box is modal and changes no field, so
\* the handler is taken at the moment of the answer.
event_disconnect_proceed(s) ==
    /\ UserInput(s) /\ conn_button[s]
    /\ current_round[s] # NoRound
    /\ quits' = quits + 1
    /\ \E ok \in BOOLEAN :
          /\ Stop(s, "mid_game", ok)
          /\ IF ok THEN DropoutResolution(s, "quitter")
             ELSE UNCHANGED <<user_profile, forfeits>>
    /\ UNCHANGED <<opponent_username, player_choice, opponent_choice, total_rounds,
                   current_round, allow_gui_update, available_servers,
                   guiVars, thrVars,
                   sock, established, udp_host, lookup_resp, ack_resp,
                   oc_rnd, results, recv_disc, chatVars>>

\* App.event_disconnect with current_round set, answered "Cancel"
event_disconnect_cancel(s) ==
    /\ UserInput(s) /\ conn_button[s]
    /\ current_round[s] # NoRound
    /\ UNCHANGED vars

\* App.event_disconnect without a game (current_round is None)
event_disconnect_nogame(s) ==
    /\ UserInput(s) /\ conn_button[s]
    /\ current_round[s] = NoRound
    /\ quits' = quits + 1
    /\ IF s = H /\ Alive(broadcast_thread)
       THEN stop_listen /\ UNCHANGED <<tcp, listening>>
       ELSE (\E ok \in BOOLEAN : Stop(s, "no_game", ok)) /\ UNCHANGED udp_host
    /\ UNCHANGED <<appVars, guiVars, thrVars, sock, established,
                   lookup_resp, ack_resp, oc_rnd, results, forfeits, recv_disc, chatVars>>

\* App.on_exit (the window is closed) with current_round set, and the
\* confirmation of event_disconnect("exit") answered "Cancel": the handler
\* returns, the application keeps running
on_exit_cancel(s) ==
    /\ UserInput(s)
    /\ current_round[s] # NoRound
    /\ allow_gui_update' = [allow_gui_update EXCEPT ![s] = FALSE]
    /\ UNCHANGED <<user_profile, opponent_username, player_choice, opponent_choice,
                   total_rounds, current_round, available_servers,
                   guiVars, thrVars, netVars, histVars, chatVars>>

\* ---- chat ---------------------------------------------------------------
Texts == {"hi", "yo"}

ChatMsg(text) == [kind |-> "CHAT", payload |-> text, rnd |-> NoRound]

\* a buffer whose first bytes are none of DISCONNECT, CHAT, GAME
JunkMsg == [kind |-> "PING", payload |-> "", rnd |-> NoRound]

\* the messages whose bytes can follow a chat text in one buffer
SessionMsgs ==
    {ChatMsg(t) : t \in Texts}
    \cup {DisconnectMsg(stage) : stage \in {"no_game", "mid_game", "game_complete"}}
    \cup {GameMsg(c, 1) : c \in Choices}
    \cup {JunkMsg}

\* the texts data[len(b"CHAT"):].decode("utf-8") can yield
ChatPayloads == Texts \cup {t \o Wire(m) : t \in Texts, m \in SessionMsgs}

\* App.event_chat with the text in the chat box; the chat widgets are enabled
\* by network_connected and disabled by network_disconnected, as current_round
\* is set and reset.  The local echo is not part of the state.
event_chat(s, text) ==
    /\ UserInput(s)
    /\ current_round[s] # NoRound
    /\ Len(chat_sent[H]) + Len(chat_sent[J]) < MaxChats
    /\ \E ok \in BOOLEAN :
          IF SessionAlive(s) THEN Send(s, ChatMsg(text), ok) ELSE ok /\ tcp' = tcp
    /\ chat_sent' = IF tcp' = tcp THEN chat_sent
                    ELSE [chat_sent EXCEPT ![s] = Append(@, text)]
    /\ UNCHANGED <<appVars, guiVars, thrVars, sock, listening, established,
                   udp_host, lookup_resp, ack_resp, histVars, textbox, unknown_read, waiting>>

\* App.network_chat(msg, "peer_chat") run as a posted callback
network_chat(s) ==
    /\ \E msg \in ChatPayloads :
          /\ Callback(s, ChatCallback(msg))
          /\ textbox' = [textbox EXCEPT ![s] = Append(@, msg)]
    /\ UNCHANGED <<appVars, rps_button, conn_button, lobby, gui, thrVars, netVars,
                   histVars, chat_sent, unknown_read, waiting>>

\* the peer's program sends bytes that are no message of the protocol
UnknownMessage(s) ==
    /\ sock[s] = "open" /\ sock[Other(s)] = "open"
    /\ \A i \in DOMAIN tcp[s] : tcp[s][i] # JunkMsg
    /\ unknown_read[s] < MaxJunk
    /\ tcp' = [tcp EXCEPT ![s] = Append(@, JunkMsg)]
    /\ UNCHANGED <<appVars, guiVars, thrVars, sock, listening, established,
                   udp_host, lookup_resp, ack_resp, histVars, chatVars>>

\* ---- specifications ------------------------------------------------------
\* every step of the two applications, for games of at most R rounds and at
\* most Q disconnects that a user goes through with
Play(R, Q) ==
    \/ \E n \in SliderMin..R : event_host(n)
    \/ \E d \in udp_host : broadcast_listen(d)
    \/ event_join_search
    \/ discover_servers
    \/ \E rec \in available_servers : event_join(rec)
    \/ launch_server
    \/ ServerListen
    \/ ServerAccept
    \/ ServerAcceptError
    \/ ServerSetConnected
    \/ ServerRecv
    \/ ServerGame
    \/ ServerClose
    \/ ServerFinally
    \/ ClientRequest
    \/ \E r \in ack_resp : ClientResponse(r)
    \/ ClientTimeout
    \/ ClientConnect
    \/ ClientRecv
    \/ ClientGame
    \/ ClientClose
    \/ ClientFinally
    \/ \E s \in Sides, v \in Played : event_rps_chosen(s, v)
    \/ \E s \in Sides : event_rps_decide(s)
    \/ \E s \in Sides : determine_advance(s)
    \/ \E s \in Sides : network_connected(s)
    \/ \E s \in Sides : network_disconnected(s)
    \/ \E s \in Sides : determine_results(s)
    \/ \E s \in Sides : dropout_resolution(s)
    \/ \E s \in Sides : quits < Q /\ event_disconnect_proceed(s)
    \/ \E s \in Sides : event_disconnect_cancel(s)
    \/ \E s \in Sides : quits < Q /\ event_disconnect_nogame(s)

Next == Play(MaxRounds, MaxQuits)

Spec == Init /\ [][Next]_vars

\* a short game that both users may leave
NextDuel == Play(DuelRounds, DuelQuits)

SpecDuel == Init /\ [][NextDuel]_vars

\* The round engine on its own: both sides are in round r of an n-round game
\* and both have chosen.  The host pressed first, so its read loop posted
\* determine_results; the joiner pressed second and is about to resolve.
InitRound ==
    \E n \in SliderMin..SliderMax, r \in SliderMin..SliderMax, p \in Choices, o \in Choices,
       w \in 0..MaxCount, l \in 0..MaxCount, t \in 0..MaxCount :
        /\ r <= n
        /\ user_profile = [s \in Sides |-> [wins |-> w, loses |-> l, ties |-> t]]
        /\ opponent_username = [s \in Sides |-> Username(Other(s))]
        /\ player_choice = [s \in Sides |-> IF s = H THEN p ELSE o]
        /\ opponent_choice = [s \in Sides |-> IF s = H THEN o ELSE p]
        /\ total_rounds = [s \in Sides |-> n]
        /\ current_round = [s \in Sides |-> r]
        /\ allow_gui_update = [s \in Sides |-> TRUE]
        /\ available_servers = {Datagram("RESP", Username(H), n)}
        /\ rps_button = [s \in Sides |-> FALSE]
        /\ conn_button = [s \in Sides |-> TRUE]
        /\ lobby = [s \in Sides |-> FALSE]
        /\ afterq = [s \in Sides |-> IF s = H THEN <<"determine_results">> ELSE <<>>]
        /\ gui = [s \in Sides |-> IF s = H THEN "idle" ELSE "chosen"]
        /\ broadcast_thread = "done"
        /\ server_thread = "recv"
        /\ client_thread = "recv"
        /\ orphan_thread = "none"
        /\ client_connected = TRUE
        /\ sock = [s \in Sides |-> "open"]
        /\ listening = TRUE
        /\ established = TRUE
        /\ tcp = [s \in Sides |-> <<>>]
        /\ udp_host = {}
        /\ lookup_resp = {}
        /\ ack_resp = {}
        /\ oc_rnd = [s \in Sides |-> r]
        /\ results = [s \in Sides |-> [k \in SliderMin..SliderMax |-> "none"]]
        /\ forfeits = [s \in Sides |-> <<>>]
        /\ recv_disc = [s \in Sides |-> [stage |-> "", rnd |-> NoRound]]
        /\ quits = 0
        /\ textbox = [s \in Sides |-> <<>>]
        /\ chat_sent = [s \in Sides |-> <<>>]
        /\ unknown_read = [s \in Sides |-> 0]
        /\ waiting = [s \in Sides |-> 0]

NextRound ==
    \/ \E s \in Sides : event_rps_decide(s)
    \/ \E s \in Sides : determine_results(s)
    \/ \E s \in Sides : determine_advance(s)
    \/ \E s \in Sides : dropout_resolution(s)
    \/ \E s \in Sides : quits < MaxQuits /\ event_disconnect_proceed(s)
    \/ ServerRecv
    \/ ClientRecv

SpecRound == InitRound /\ [][NextRound]_vars

\* The end of a session: a one-round game in which, besides every step of
\* Play, a process may be killed, a recv may raise, and a user may close the
\* window and cancel
NextClose ==
    \/ Play(CloseRounds, CloseQuits)
    \/ ServerRecvError
    \/ ClientRecvError
    \/ \E s \in Sides : Crash(s)
    \/ \E s \in Sides : on_exit_cancel(s)

SpecClose == Init /\ [][NextClose]_vars

\* steps of the three kinds of worker and of the control thread of side s once
\* a handler or callback is due; pressing a button is not among them
BroadcastStep == \E d \in udp_host : broadcast_listen(d)

ServerStep ==
    \/ ServerListen \/ ServerAccept \/ ServerAcceptError \/ ServerSetConnected
    \/ ServerRecv \/ ServerGame \/ ServerClose \/ ServerFinally

ClientStep ==
    \/ ClientRequest \/ (\E r \in ack_resp : ClientResponse(r)) \/ ClientTimeout
    \/ ClientConnect \/ ClientRecv \/ ClientGame \/ ClientClose \/ ClientFinally

ControlStep(s) ==
    \/ s = J /\ discover_servers
    \/ s = H /\ launch_server
    \/ event_rps_decide(s) \/ determine_advance(s)
    \/ network_connected(s) \/ network_disconnected(s)
    \/ determine_results(s) \/ dropout_resolution(s)

\* A one-round game with the cancelled exit, in which every thread that can
\* take a step eventually takes one: the workers are operating system threads
\* and the Tk main loop runs the callbacks it was handed
NextLive ==
    \/ Play(LiveRounds, LiveQuits)
    \/ \E s \in Sides : on_exit_cancel(s)

Fairness ==
    /\ WF_vars(BroadcastStep) /\ WF_vars(ServerStep) /\ WF_vars(ClientStep)
    /\ \A s \in Sides : WF_vars(ControlStep(s))

SpecLive == Init /\ [][NextLive]_vars /\ Fairness

\* the same without the cancelled exit
SpecLiveFlag == Init /\ [][Play(LiveRounds, LiveQuits)]_vars /\ Fairness

\* Chat in a connected session.  Both sides are in round 1 of a game, as
\* network_connected left them; no choice is pressed.  recv may return two
\* messages in one buffer, and the peer's program may send bytes that are no
\* message.
InitSession(n) ==
    /\ user_profile = [s \in Sides |-> [wins |-> 0, loses |-> 0, ties |-> 0]]
    /\ opponent_username = [s \in Sides |-> Username(Other(s))]
    /\ player_choice = [s \in Sides |-> None]
    /\ opponent_choice = [s \in Sides |-> None]
    /\ total_rounds = [s \in Sides |-> n]
    /\ current_round = [s \in Sides |-> 1]
    /\ allow_gui_update = [s \in Sides |-> TRUE]
    /\ available_servers = {Datagram("RESP", Username(H), n)}
    /\ rps_button = [s \in Sides |-> TRUE]
    /\ conn_button = [s \in Sides |-> TRUE]
    /\ lobby = [s \in Sides |-> FALSE]
    /\ afterq = [s \in Sides |-> <<>>]
    /\ gui = [s \in Sides |-> "idle"]
    /\ broadcast_thread = "done"
    /\ server_thread = "recv"
    /\ client_thread = "recv"
    /\ orphan_thread = "none"
    /\ client_connected = TRUE
    /\ sock = [s \in Sides |-> "open"]
    /\ listening = TRUE
    /\ established = TRUE
    /\ tcp = [s \in Sides |-> <<>>]
    /\ udp_host = {}
    /\ lookup_resp = {}
    /\ ack_resp = {}
    /\ oc_rnd = [s \in Sides |-> NoRound]
    /\ results = [s \in Sides |-> [k \in SliderMin..SliderMax |-> "none"]]
    /\ forfeits = [s \in Sides |-> <<>>]
    /\ recv_disc = [s \in Sides |-> [stage |-> "", rnd |-> NoRound]]
    /\ quits = 0
    /\ textbox = [s \in Sides |-> <<>>]
    /\ chat_sent = [s \in Sides |-> <<>>]
    /\ unknown_read = [s \in Sides |-> 0]
    /\ waiting = [s \in Sides |-> 0]

InitChat == InitSession(ChatRounds)

NextChat ==
    \/ \E s \in Sides, text \in Texts : event_chat(s, text)
    \/ \E s \in Sides : network_chat(s)
    \/ \E s \in Sides : UnknownMessage(s)
    \/ ServerRecv
    \/ ServerRecvGlued
    \/ ServerClose
    \/ ServerFinally
    \/ ClientRecv
    \/ ClientRecvGlued
    \/ ClientClose
    \/ ClientFinally
    \/ \E s \in Sides : quits < ChatQuits /\ event_disconnect_proceed(s)
    \/ \E s \in Sides : dropout_resolution(s)
    \/ \E s \in Sides : network_disconnected(s)

SpecChat == InitChat /\ [][NextChat]_vars

\* The lobby and the handshake: no choice is pressed; a third instance may
\* send CONNECT to the host and a stray datagram may reach the joiner, and the
\* joiner's user may press Join a second time
NextLobby ==
    \/ \E n \in SliderMin..LobbyRounds : event_host(n)
    \/ \E d \in udp_host : broadcast_listen(d)
    \/ event_join_search
    \/ discover_servers
    \/ \E rec \in available_servers : event_join(rec)
    \/ \E rec \in available_servers : event_join_again(rec)
    \/ StrangerConnect
    \/ \E d \in BadConnects : StrangerBadConnect(d)
    \/ \E r \in BadResponses : StrayResponse(r)
    \/ StrayDatagram
    \/ launch_server
    \/ ServerListen
    \/ ServerAccept
    \/ ServerAcceptError
    \/ ServerSetConnected
    \/ ServerRecv
    \/ ServerClose
    \/ ServerFinally
    \/ ClientRequest
    \/ \E r \in ack_resp : ClientResponse(r)
    \/ ClientTimeout
    \/ ClientConnect
    \/ ClientRecv
    \/ ClientRecvError
    \/ ClientClose
    \/ ClientFinally
    \/ \E r \in ack_resp : OrphanResponse(r)
    \/ OrphanTimeout
    \/ OrphanConnect
    \/ OrphanRecv
    \/ OrphanRecvError
    \/ OrphanClose
    \/ OrphanFinally
    \/ \E s \in Sides : network_connected(s)
    \/ \E s \in Sides : network_disconnected(s)
    \/ \E s \in Sides : dropout_resolution(s)
    \/ \E s \in Sides : quits < LobbyQuits /\ event_disconnect_proceed(s)
    \/ \E s \in Sides : quits < LobbyQuits /\ event_disconnect_nogame(s)
    \/ \E s \in Sides : on_exit_cancel(s)

SpecLobby == Init /\ [][NextLobby]_vars

\* ---- hosting again -----------------------------------------------------------
\* App.event_host pressed again after an earlier hosting attempt ended (its
\* listener is gone and network_disconnected enabled the lobby): a new
\* listener is started with the slider at n
event_host_again(n) ==
    /\ UserInput(H) /\ lobby[H]
    /\ broadcast_thread = "done"
    /\ ~Alive(server_thread)
    /\ total_rounds' = [total_rounds EXCEPT ![H] = n]
    /\ broadcast_thread' = "listen"
    /\ lobby' = [lobby EXCEPT ![H] = FALSE]
    /\ conn_button' = [conn_button EXCEPT ![H] = TRUE]
    /\ UNCHANGED <<user_profile, opponent_username, player_choice, opponent_choice,
                   current_round, allow_gui_update, available_servers,
                   rps_button, afterq, gui,
                   server_thread, client_thread, client_connected, orphan_thread,
                   netVars, histVars, chatVars>>

\* the lobby with a host that may cancel and host again
NextRehost ==
    \/ NextLobby
    \/ \E n \in SliderMin..LobbyRounds : event_host_again(n)

SpecRehost == Init /\ [][NextRehost]_vars

\* ---- a connected game that nobody leaves ----------------------------------
\* Both sides are in round 1 of a game of ChatRounds rounds; every recv
\* returns one message, no user disconnects.  The read threads and the Tk
\* main loop take their steps when they can, and each user presses a choice
\* button whenever the buttons are enabled.
NextGame ==
    \/ \E s \in Sides, v \in Played : event_rps_chosen(s, v)
    \/ \E s \in Sides : event_rps_decide(s)
    \/ \E s \in Sides : determine_advance(s)
    \/ \E s \in Sides : determine_results(s)
    \/ \E s \in Sides : network_disconnected(s)
    \/ ServerRecv
    \/ ServerGame
    \/ ServerClose
    \/ ServerFinally
    \/ ClientRecv
    \/ ClientGame
    \/ ClientClose
    \/ ClientFinally

GameFairness ==
    /\ WF_vars(ServerRecv \/ ServerGame \/ ServerClose \/ ServerFinally)
    /\ WF_vars(ClientRecv \/ ClientGame \/ ClientClose \/ ClientFinally)
    /\ \A s \in Sides :
          /\ WF_vars(event_rps_decide(s) \/ determine_advance(s)
                      \/ determine_results(s) \/ network_disconnected(s))
          /\ SF_vars(\E v \in Played : event_rps_chosen(s, v))

SpecGame == InitChat /\ [][NextGame]_vars /\ GameFairness

\* ---- a longer game ---------------------------------------------------------
\* a connected game of LongRounds rounds that nobody leaves, one message per
\* recv
InitLong == InitSession(LongRounds)

SpecLong == InitLong /\ [][NextGame]_vars

\* ---- a GAME message with a payload that is no choice -------------------------
\* a peer that is not this program sends GAME with a payload other than Rock,
\* Paper, Scissors on the connection read by side s
Lizard == "Lizard"

InvalidGame(s) ==
    /\ sock[s] = "open" /\ sock[Other(s)] = "open"
    /\ current_round[s] # NoRound
    /\ opponent_choice[s] = None
    /\ \A i \in DOMAIN tcp[s] : tcp[s][i].kind # "GAME"
    /\ tcp' = [tcp EXCEPT ![s] = Append(@, GameMsg(Lizard, current_round[s]))]
    /\ UNCHANGED <<appVars, guiVars, thrVars, sock, listening, established,
                   udp_host, lookup_resp, ack_resp, histVars, chatVars>>

NextBadGame ==
    \/ NextGame
    \/ \E s \in Sides : InvalidGame(s)

\* a connected game of one round
InitShort == InitSession(DuelRounds)

SpecBadGame == InitShort /\ [][NextBadGame]_vars

\* ---- claims ----------------------------------------------------------------
\* side s counts the result of a round in this step
Counts(s) == gui[s] # "counted" /\ gui'[s] = "counted"

\* the rules of the game, as a table
Beats == {<<Rock, Scissors>>, <<Paper, Rock>>, <<Scissors, Paper>>}
Table(local, remote) ==
    IF local = remote THEN "Tie"
    ELSE IF <<local, remote>> \in Beats THEN "Win" ELSE "Lose"

Bump(up, field) ==
    [wins |-> up.wins + (IF field = "wins" THEN 1 ELSE 0),
     loses |-> up.loses + (IF field = "loses" THEN 1 ELSE 0),
     ties |-> up.ties + (IF field = "ties" THEN 1 ELSE 0)]

\* C1: for every pair of choices determine_results counts a tie iff the choices
\* are equal, a win for Rock/Scissors, Paper/Rock, Scissors/Paper and a loss
\* for the three reverse pairs (exactly one counter grows, by one).
C1_Outcome ==
    [][\A s \in Sides : Counts(s) =>
          LET t == Table(player_choice[s], opponent_choice[s]) IN
          /\ results'[s][current_round[s]] = t
          /\ user_profile'[s] =
                Bump(user_profile[s],
                     CASE t = "Tie" -> "ties" [] t = "Win" -> "wins" [] t = "Lose" -> "loses")]_vars

C1_Witness ==
    /\ gui[H] = "counted"
    /\ player_choice[H] = Rock /\ opponent_choice[H] = Scissors
    /\ results[H][current_round[H]] = "Win"
    /\ gui[J] = "counted"
    /\ results[J][current_round[J]] = "Lose"

\* the outcome the peer must have counted for a round this side counted as r
Mirror(r) == CASE r = "Win" -> "Lose" [] r = "Lose" -> "Win" [] r = "Tie" -> "Tie"

\* C2: for every round k that both peers resolved, the two outcomes are
\* mirrored: one side's Win is the other's Lose, and a Tie is a Tie for both
\* (each peer resolved round k with its own and the peer's round-k choice).
C2_Mirrored ==
    \A k \in SliderMin..SliderMax :
        (results[H][k] # "none" /\ results[J][k] # "none")
            => results[J][k] = Mirror(results[H][k])

\* the control thread takes the posted callback f of side s in this step
Runs(s, f) ==
    /\ gui[s] = "idle"
    /\ afterq[s] # <<>>
    /\ Head(afterq[s]) = f
    /\ afterq'[s] = Tail(afterq[s])

\* C3: determine_results is entered only when both player_choice and
\* opponent_choice of the side are set.
C3_BothSet ==
    [][\A s \in Sides :
          (Runs(s, "determine_results") \/ Counts(s))
              => (player_choice[s] # None /\ opponent_choice[s] # None)]_vars

\* C4: while a session is connected current_round starts at 1, never decreases
\* and stays within 1..total_rounds.
C4_RoundRange ==
    [][\A s \in Sides :
          /\ current_round'[s] # NoRound =>
                (1 <= current_round'[s] /\ current_round'[s] <= total_rounds'[s])
          /\ (current_round[s] = NoRound /\ current_round'[s] # NoRound) =>
                current_round'[s] = 1
          /\ (current_round[s] # NoRound /\ current_round'[s] # NoRound) =>
                current_round'[s] >= current_round[s]]_vars

\* both sides have reached the last of two rounds
C4_Witness ==
    \A s \in Sides : /\ total_rounds[s] = 2 /\ current_round[s] = 2
                     /\ results[s][1] # "none"

\* side s ends a round that is not the last one in this step
Advances(s) ==
    /\ gui[s] = "counted" /\ gui'[s] = "idle"
    /\ current_round[s] < total_rounds[s]

\* C5: when a round with current_round < total_rounds resolves, current_round
\* grows by exactly 1 and both choices are cleared, and the cleared
\* opponent_choice is never one the peer submitted for a later round.
C5_ClearsOwnRound ==
    [][\A s \in Sides : Advances(s) =>
          /\ current_round'[s] = current_round[s] + 1
          /\ player_choice'[s] = None /\ opponent_choice'[s] = None
          /\ oc_rnd[s] <= current_round[s]]_vars

\* side s ends its last round in this step
Completes(s) ==
    /\ gui[s] = "counted" /\ gui'[s] = "idle"
    /\ current_round[s] = total_rounds[s]

\* a DISCONNECT game_complete is on its way to side s
GameCompleteTo(s) ==
    \E i \in 1..Len(tcp[s]) : tcp[s][i] = DisconnectMsg("game_complete")

\* C6 as written: when the last round resolves current_round stays, the host
\* sends DISCONNECT game_complete to the joiner, and the joiner never sends it.
C6_HostCompletes ==
    [][/\ \A s \in Sides : Completes(s) => current_round'[s] = current_round[s]
       /\ Completes(H) => tcp'[J] = Append(tcp[J], DisconnectMsg("game_complete"))
       /\ ~GameCompleteTo(H)']_vars

\* the connection of the host to the joiner is up: the server thread is alive
\* with a client connected and neither side has closed its socket
HostLinkUp ==
    /\ Alive(server_thread)
    /\ client_connected
    /\ sock[H] = "open" /\ sock[J] = "open"

\* C6, amended: when the last round resolves current_round stays; the host
\* sends DISCONNECT game_complete if its connection to the joiner is up and
\* sends nothing otherwise; the joiner never sends it.
C6_HostCompletesWhenUp ==
    [][/\ \A s \in Sides : Completes(s) => current_round'[s] = current_round[s]
       /\ Completes(H) =>
            tcp'[J] = IF HostLinkUp
                      THEN Append(tcp[J], DisconnectMsg("game_complete"))
                      ELSE tcp[J]
       /\ Completes(J) => tcp' = tcp
       /\ ~GameCompleteTo(H)']_vars

\* the host has resolved the last round and its game_complete is in flight
C6_Witness ==
    /\ total_rounds[H] # NoRound
    /\ current_round[H] = total_rounds[H]
    /\ results[H][total_rounds[H]] # "none"
    /\ gui[H] = "idle"
    /\ GameCompleteTo(J)

\* side s applies dropout_resolution(actor) in this step
Forfeits(s, actor) == forfeits'[s] = Append(forfeits[s], actor)

\* C7: dropout_resolution adds total_rounds - (current_round - 1) to wins for
\* actor "player" and to loses for actor "quitter", and leaves the two other
\* counters unchanged.
C7_Forfeit ==
    [][\A s \in Sides :
          LET rounds == total_rounds[s] - current_round[s] + 1
              up == user_profile[s] IN
          /\ Forfeits(s, "player") =>
                user_profile'[s] = [wins |-> up.wins + rounds, loses |-> up.loses,
                                    ties |-> up.ties]
          /\ Forfeits(s, "quitter") =>
                user_profile'[s] = [wins |-> up.wins, loses |-> up.loses + rounds,
                                    ties |-> up.ties]]_vars

\* total_rounds = 5, current_round = 3 after a tied round 2: the side that saw
\* the peer leave has three more wins, the side that left three more losses
C7_Witness ==
    /\ \A s \in Sides : total_rounds[s] = 5 /\ current_round[s] = 3
    /\ forfeits[H] = <<"player">>
    /\ user_profile[H] = [wins |-> 3, loses |-> 0, ties |-> 1]
    /\ forfeits[J] = <<"quitter">>
    /\ user_profile[J] = [wins |-> 0, loses |-> 3, ties |-> 1]

\* the actors of the forfeits side s has applied
Applied(s) == {forfeits[s][i] : i \in 1..Len(forfeits[s])}

\* C8: a side applies at most one forfeiture outcome in a session, never both
\* the forfeit losses of a quitter and the forfeit wins of a player, also when
\* both peers ask for a mid-game disconnect at the same time.
C8_OneForfeit ==
    \A s \in Sides : Len(forfeits[s]) <= 1 /\ Applied(s) # {"player", "quitter"}

\* the second half of C8 alone: no side has both the forfeit losses of a
\* quitter and the forfeit wins of a player
C8_NeverBoth == \A s \in Sides : Applied(s) # {"player", "quitter"}

\* side s takes a DISCONNECT of a stage other than mid_game off its connection
ReadsQuietDisconnect(s) ==
    /\ tcp[s] # <<>>
    /\ Head(tcp[s]).kind = "DISCONNECT"
    /\ Head(tcp[s]).payload \in {"no_game", "game_complete"}
    /\ tcp'[s] = Tail(tcp[s])

\* side s puts a DISCONNECT of a stage other than mid_game on its connection
SendsQuietDisconnect(s) ==
    \E stage \in {"no_game", "game_complete"} :
        tcp'[Other(s)] = Append(tcp[Other(s)], DisconnectMsg(stage))

\* C9: a DISCONNECT of stage no_game or game_complete applies no forfeiture:
\* reading one posts no dropout_resolution, reading or sending one leaves the
\* counters as they are, and a side applies the forfeit wins of a player only
\* after it read a DISCONNECT mid_game.
C9_NoForfeit ==
    [][\A s \in Sides :
          /\ ReadsQuietDisconnect(s) =>
                /\ afterq'[s] = afterq[s]
                /\ user_profile' = user_profile /\ forfeits' = forfeits
          /\ SendsQuietDisconnect(s) =>
                user_profile' = user_profile /\ forfeits' = forfeits
          /\ Forfeits(s, "player") => recv_disc[s].stage = "mid_game"]_vars

\* the joiner has read the host's game_complete and is back in the lobby, and
\* neither side has any forfeit
C9_Witness ==
    /\ recv_disc[J].stage = "game_complete"
    /\ client_thread = "done" /\ current_round[J] = NoRound
    /\ \A s \in Sides : forfeits[s] = <<>> /\ afterq[s] = <<>>

Ends(s) ==
    IF s = H THEN server_thread = "finally" /\ server_thread' = "done"
    ELSE client_thread = "finally" /\ client_thread' = "done"

\* the session thread of side s got as far as its read loop: the host's accept,
\* the joiner's connect returned
LoopStarted(s) == IF s = H THEN sock[H] # "none" ELSE established

\* network_disconnected is posted to the control thread of side s in this step
PostsDisconnected(s) == afterq'[s] = Append(afterq[s], "network_disconnected")

\* the broadcast listener takes the DISCONNECT datagram of stop_listen
ListenerCancelled ==
    broadcast_thread = "listen" /\ broadcast_thread' = "done" /\ afterq'[H] # afterq[H]

\* C11: a session thread whose read loop was started posts network_disconnected
\* when it ends, whatever ended the loop, and network_disconnected is posted at
\* no other moment of the session (so exactly once per session).
C11_OneDispatch ==
    [][\A s \in Sides :
          /\ (Ends(s) /\ LoopStarted(s)) => PostsDisconnected(s)
          /\ PostsDisconnected(s) => (Ends(s) \/ (s = H /\ ListenerCancelled))]_vars

\* C12: when a session thread whose read loop was started ends, the stream
\* socket of its side is closed, and on the host the listening socket too.
C12_SocketsClosed ==
    [][\A s \in Sides :
          (Ends(s) /\ LoopStarted(s)) =>
              (sock[s] = "closed" /\ (s = H => ~listening))]_vars

\* the round state and the profile counters of side s
RoundState(s) ==
    <<player_choice[s], opponent_choice[s], current_round[s], total_rounds[s],
      user_profile[s]>>

\* a running background thread (broadcast listener or session thread) takes
\* this step
WorkerStep ==
    \/ Alive(broadcast_thread) /\ broadcast_thread' # broadcast_thread
    \/ Alive(server_thread) /\ server_thread' # server_thread
    \/ Alive(client_thread) /\ client_thread' # client_thread

\* C13: the round state and the profile counters change only in steps of the
\* control thread; a step of a background worker writes none of these fields.
C13_ControlThreadOnly ==
    [][WorkerStep => \A s \in Sides : RoundState(s)' = RoundState(s)]_vars

\* ---- the handshake -----------------------------------------------------------
\* callbacks f waiting in the queue of side s
Pending(s, f) == Cardinality({i \in DOMAIN afterq[s] : afterq[s][i] = f})

\* launch_server scheduled or run in this hosting attempt
Launched == Pending(H, "launch_server") + (IF server_thread = "none" THEN 0 ELSE 1)

\* the listener answers a CONNECT: ACK sent, launch_server scheduled
Acknowledges == afterq'[H] = Append(afterq[H], "launch_server")

\* the host's stream socket gets its connection
Accepts == sock'[H] = "open" /\ sock[H] # "open"

\* C14: in a hosting attempt the listener acknowledges at most one CONNECT: the
\* acknowledging step is the first of the attempt and ends the listener, so a
\* later CONNECT is neither recorded as opponent nor sent an ACK; launch_server
\* is scheduled at most once, and a stream connection is accepted only by the
\* session thread waiting in accept, which has accepted none before.
C14_OneAck ==
    [][/\ Acknowledges => /\ broadcast_thread = "listen" /\ broadcast_thread' = "done"
                           /\ Launched = 0
                           /\ udp_host' = {}
       /\ opponent_username'[H] \notin {None, opponent_username[H]} => Acknowledges
       /\ (ack_resp' \ ack_resp) # {} /\ (\E r \in ack_resp' \ ack_resp : r.kind = "ACK")
              => Acknowledges
       /\ Accepts => (server_thread = "accept" /\ ~client_connected)
       /\ Launched' <= 1]_vars

\* a stranger's CONNECT was acknowledged, the listener is gone, and the
\* joiner's later attempt ended without a connection
C14_Witness ==
    /\ opponent_username[H] = "stranger"
    /\ broadcast_thread = "done"
    /\ Launched = 1
    /\ client_thread = "done"
    /\ ~established

\* a Client.start thread goes on to connect
GoesToConnect(t) == t' = "connect" /\ t # "connect"

\* C15: a Client.start thread goes on to the stream connection only from the
\* wait for the response, by taking a datagram while an ACK is there; the
\* stream connection is made only by a thread that got that far, and
\* network_connected is posted to the joiner only in the step that connects.
C15_AckFirst ==
    [][/\ GoesToConnect(client_thread) =>
              /\ client_thread = "wait_ack"
              /\ \E r \in ack_resp : r.kind = "ACK"
              /\ ack_resp' = {}
       /\ GoesToConnect(orphan_thread) =>
              /\ orphan_thread = "wait_ack"
              /\ \E r \in ack_resp : r.kind = "ACK"
              /\ ack_resp' = {}
       /\ (established' /\ ~established) =>
              (client_thread = "connect" \/ orphan_thread = "connect")
       /\ sock'[J] = "open" /\ sock[J] # "open" => (established' /\ ~established)
       /\ afterq'[J] = Append(afterq[J], "network_connected") =>
              (established' /\ ~established)]_vars

\* the joiner was acknowledged, connected, and its session began
C15_Witness ==
    /\ opponent_username[H] = Username(J)
    /\ established
    /\ client_thread = "recv"
    /\ sock[J] = "open"
    /\ current_round[J] = 1

\* the wait for the response ends by the timeout
TimesOut ==
    /\ client_thread = "wait_ack" /\ client_thread' # "wait_ack"
    /\ ack_resp = {}
    /\ orphan_thread' = orphan_thread

\* the Client.start thread is on its way out without having connected
Aborting == client_thread \in {"closing", "finally"} /\ ~established

TakesNonAck ==
    /\ client_thread = "wait_ack"
    /\ ack_resp # {} /\ \A r \in ack_resp : r.kind # "ACK"
    /\ ack_resp' = {}

\* C17: a datagram that is not ACK, received while the joiner waits for the
\* response to CONNECT, does not end the wait: the thread is still waiting
\* after taking it.
C17_NonAckIgnored ==
    [][TakesNonAck => client_thread' = "wait_ack"]_vars

\* ---- the peer vanishes ---------------------------------------------------------
\* the session thread of side s
session_thread(s) == IF s = H THEN server_thread ELSE client_thread

\* recv returns no data on side s: nothing was left to read and the loop ends
ZeroLengthRead(s) ==
    /\ session_thread(s) = "recv" /\ session_thread(s)' = "closing"
    /\ tcp[s] = <<>> /\ tcp' = tcp

\* side s is in a game whose last round is not yet decided
InGame(s) ==
    /\ current_round[s] # NoRound /\ total_rounds[s] # NoRound
    /\ results[s][total_rounds[s]] = "none"

\* C18: when the read loop of a side ends by a zero-length read while the side
\* is in a game and nobody has asked for a disconnect, forfeiture is started on
\* that side: dropout_resolution is posted.
C18_ZeroReadForfeits ==
    [][\A s \in Sides :
          (ZeroLengthRead(s) /\ InGame(s) /\ quits = 0) =>
              afterq'[s] = Append(afterq[s], "dropout_resolution")]_vars

\* ---- one session per instance ---------------------------------------------------
\* workers of the host instance and of the joiner instance that are running
Running(s) ==
    IF s = H THEN {t \in {"broadcast", "server"} :
                     Alive(IF t = "broadcast" THEN broadcast_thread ELSE server_thread)}
    ELSE {t \in {"client", "earlier client"} :
            Alive(IF t = "client" THEN client_thread ELSE orphan_thread)}

\* C19: an instance has at most one worker running at any time: no host or
\* join path is started while a hosting attempt, a join attempt or a session
\* is in progress.
C19_OneWorker == \A s \in Sides : Cardinality(Running(s)) <= 1

\* ---- a second choice ------------------------------------------------------------
\* side s sends GAME<c>
SendsGame(s, c) ==
    /\ Len(tcp'[Other(s)]) = Len(tcp[Other(s)]) + 1
    /\ tcp'[Other(s)][Len(tcp'[Other(s)])].kind = "GAME"
    /\ tcp'[Other(s)][Len(tcp'[Other(s)])].payload = c

\* C20: while a choice of a side is pending no other choice is taken:
\* player_choice goes to a choice only from None, and a GAME message is sent
\* only in a step that sets player_choice from None to the choice sent, so
\* one round has one GAME message of a side.
C20_OneChoice ==
    [][\A s \in Sides :
          /\ (player_choice'[s] # player_choice[s] /\ player_choice'[s] # None) =>
                 player_choice[s] = None
          /\ \A c \in Choices :
                 SendsGame(s, c) => (player_choice[s] = None /\ player_choice'[s] = c)]_vars

\* the host has chosen Rock and waits for the joiner: its choice is pending,
\* its GAME message is on the way and its choice buttons are disabled
C20_Witness ==
    /\ player_choice[H] = Rock /\ opponent_choice[H] = None
    /\ ~CanChoose(H) /\ UserInput(H)
    /\ current_round[H] = 1
    /\ tcp[J] = <<GameMsg(Rock, 1)>>

\* ---- requestClose ---------------------------------------------------------------
\* Server.stop takes its else branch: the control thread closes the listening
\* socket (the session thread's own close moves that thread on)
StopCloses == listening /\ ~listening' /\ server_thread' = server_thread

\* the host sends DISCONNECT<stage>
HostSendsDisconnect ==
    \E stage \in {"no_game", "mid_game", "game_complete"} :
        tcp'[J] = Append(tcp[J], DisconnectMsg(stage))

\* C21: Server.stop closes the listening socket, sending nothing, only when no
\* client is connected, and sends DISCONNECT<stage> only on a connection that
\* was accepted, leaving the listening socket as it is.
C21_StopByConnection ==
    [][/\ StopCloses => (sock[H] # "open" /\ tcp' = tcp)
       /\ HostSendsDisconnect => (sock[H] = "open" /\ listening' = listening)]_vars

\* a DISCONNECT message was sent and is on its way to side s
DisconnectSent(s) == \E i \in DOMAIN tcp[s] : tcp[s][i].kind = "DISCONNECT"

\* the read loop of side s is over and network_disconnected has run there
Disconnected(s) ==
    /\ session_thread(s) = "done"
    /\ Pending(s, "network_disconnected") = 0
    /\ current_round[s] = NoRound /\ lobby[s]

\* C22: once a peer has sent DISCONNECT<stage>, both read loops end and
\* network_disconnected runs on both sides.
C22_BothDisconnect ==
    (\E s \in Sides : DisconnectSent(s)) ~> (\A s \in Sides : Disconnected(s))

\* ---- datagrams the listener must not act on ------------------------------------
\* the listener's loop ends
ListenerEnds == broadcast_thread = "listen" /\ broadcast_thread' = "done"

\* C23: the listener acts on a CONNECT only if it names this host and has
\* exactly two fields: only such a datagram is acknowledged, recorded as
\* opponent and followed by launch_server; any other CONNECT leaves the
\* listener listening, its loop ending only by an acknowledged CONNECT or by
\* the DISCONNECT of stop_listen.
C23_BadConnectIgnored ==
    [][/\ Acknowledges =>
              \E d \in udp_host : /\ d.kind = "CONNECT" /\ d \notin BadConnects
                                   /\ opponent_username'[H] = d.b
       /\ opponent_username'[H] \notin {None, opponent_username[H]} => Acknowledges
       /\ (\E r \in ack_resp' \ ack_resp : r.kind = "ACK") => Acknowledges
       /\ ListenerEnds => (Acknowledges \/ PostsDisconnected(H))]_vars

\* discover_servers returns
Returns == gui[J] = "search" /\ gui'[J] = "idle"

\* a lookup response with exactly three fields
WellFormedResponse(r) == r \notin BadResponses

\* C24: discover_servers returns exactly the lookup responses with three
\* fields among the datagrams received before the timeout; with no responder
\* that is the empty list.
C24_Discovery ==
    [][Returns => available_servers' = {r \in lookup_resp : WellFormedResponse(r)}]_vars

\* ---- chat and unknown messages ---------------------------------------------------
IsPrefix(a, b) == Len(a) <= Len(b) /\ a = SubSeq(b, 1, Len(a))

\* C25: the peer chat texts shown on a side are the texts the peer sent as
\* CHAT, unchanged, each at most once and in the order sent.
C25_ChatInOrder == \A s \in Sides : IsPrefix(textbox[s], chat_sent[Other(s)])

\* the messages of no known kind waiting on the connection read by side s
UnknownWaiting(s) ==
    {i \in DOMAIN tcp[s] : tcp[s][i].kind \notin {"DISCONNECT", "CHAT", "GAME"}}

\* the read loop of side s takes a message of no known kind off its connection
TakesUnknown(s) ==
    /\ session_thread(s) = "recv"
    /\ Cardinality(UnknownWaiting(s)') < Cardinality(UnknownWaiting(s))

\* C26: a session message whose kind is none of DISCONNECT, CHAT, GAME is
\* dropped silently: the read loop that took it goes on reading, nothing is
\* scheduled on either control thread, and the round state (choices, round
\* numbers, win/loss counters) of both sides is unchanged
C26_UnknownDropped ==
    [][\A s \in Sides :
          TakesUnknown(s) =>
              /\ session_thread(s)' = "recv"
              /\ afterq' = afterq
              /\ \A t \in Sides : RoundState(t)' = RoundState(t)
              /\ opponent_username' = opponent_username]_vars

\* side s shows 'Waiting for <opponent>...'
ShowsWaiting(s) == waiting'[s] = waiting[s] + 1

\* C27: in each round a side shows at most one 'Waiting for <opponent>...'
\* line, and it shows one only in the handler of a local choice that found no
\* remote choice: the local choice is set and opponent_choice is None
C27_OneWaiting ==
    [][\A s \in Sides :
          /\ waiting'[s] <= 1
          /\ ShowsWaiting(s) =>
                 /\ player_choice[s] \in Choices
                 /\ opponent_choice[s] = None]_vars

\* C27 witness: the host chose first in round 2 and was told to wait; the
\* joiner's choice has not arrived
C27_Witness ==
    /\ waiting[H] = 1
    /\ current_round[H] = 2
    /\ player_choice[H] \in Choices
    /\ opponent_choice[H] = None

\* the control thread of side s runs the posted callback f
RunsCallback(s, f) ==
    /\ gui[s] = "idle"
    /\ afterq[s] # <<>>
    /\ Head(afterq[s]) = f
    /\ afterq'[s] = Tail(afterq[s])
    /\ gui'[s] # "dead"

\* the session fields of side s are all None
SessionReset(s) ==
    /\ player_choice[s] = None
    /\ opponent_choice[s] = None
    /\ current_round[s] = NoRound
    /\ total_rounds[s] = NoRound
    /\ opponent_username[s] = None

\* a determine_results or dropout_resolution entry of the queue of side s is
\* behind a network_disconnected entry with no network_connected between
\* them: it would run on the reset fields
QueuedBehindReset(s) ==
    \E i, j \in DOMAIN afterq[s] :
        /\ i < j
        /\ afterq[s][i] = "network_disconnected"
        /\ afterq[s][j] \in {"determine_results", "dropout_resolution"}
        /\ \A k \in (i + 1)..(j - 1) : afterq[s][k] # "network_connected"

\* C28: network_disconnected leaves player_choice, opponent_choice,
\* current_round, total_rounds and opponent_username None, and no
\* determine_results or dropout_resolution callback runs on a side whose
\* session was reset: such a callback runs only while current_round is set,
\* and none is queued behind the reset
C28_ResetIsLast ==
    [][\A s \in Sides :
          /\ RunsCallback(s, "network_disconnected") => SessionReset(s)'
          /\ \A f \in {"determine_results", "dropout_resolution"} :
                 RunsCallback(s, f) => current_round[s] # NoRound
          /\ ~QueuedBehindReset(s)']_vars

\* C28 witness: the joiner left in round 1; the host's loop read its
\* DISCONNECT, dropout_resolution ran before network_disconnected, and the
\* host's session fields are reset
C28_Witness ==
    /\ forfeits[H] = <<"player">>
    /\ server_thread = "done"
    /\ afterq[H] = <<>>
    /\ lobby[H]
    /\ SessionReset(H)

\* the listener takes a LOOKUP datagram
TakesLookup ==
    /\ broadcast_thread = "listen"
    /\ \E d \in udp_host : d.kind = "LOOKUP" /\ udp_host' = udp_host \ {d}

\* C29: while listening the host answers every LOOKUP with its user name and
\* the total_rounds of this hosting attempt (the value event_host stored,
\* which stays as it is while the listener runs) and goes on listening: the
\* LOOKUP sends no ACK, schedules nothing and starts no server thread.  The
\* answer reaches the requester while its discover_servers is receiving.
C29_LookupAnswered ==
    [][/\ TakesLookup =>
              /\ total_rounds[H] \in SliderMin..SliderMax
              /\ lookup_resp' \subseteq
                     lookup_resp \cup {Datagram("RESP", Username(H), total_rounds[H])}
              /\ gui[J] = "search" =>
                     Datagram("RESP", Username(H), total_rounds[H]) \in lookup_resp'
              /\ broadcast_thread' = "listen"
              /\ ack_resp' = ack_resp
              /\ afterq' = afterq
              /\ server_thread' = server_thread
       /\ (broadcast_thread = "listen" /\ broadcast_thread' = "listen") =>
              total_rounds'[H] = total_rounds[H]]_vars

\* C29 witness: the host listens for a game of 2 rounds, the joiner's search
\* is receiving and the host's answer with 2 rounds is on its way to it
C29_Witness ==
    /\ broadcast_thread = "listen"
    /\ total_rounds[H] = 2
    /\ gui[J] = "search"
    /\ Datagram("RESP", Username(H), 2) \in lookup_resp
    /\ afterq[H] = <<>>
    /\ server_thread = "none"

\* the listener takes a DISCONNECT datagram: one is waiting, no CONNECT is,
\* and the listener's socket is emptied in a step of the running instance
TakesDisconnect ==
    /\ broadcast_thread = "listen"
    /\ \E d \in udp_host : d.kind = "DISCONNECT"
    /\ \A d \in udp_host : d.kind # "CONNECT"
    /\ udp_host' = {}
    /\ gui'[H] # "dead"

CountedBefore(s) ==
    current_round[s] # NoRound /\ results[s][current_round[s]] # "none"

\* C31: each round of a session is resolved at most once on each side: the
\* result of a round is counted only if that round was not counted before, and
\* a posted determine_results runs only for a round not yet counted and with
\* both choices set (no second determine_results for the same round, none on
\* cleared choices).
C31_OncePerRound ==
    [][\A s \in Sides :
          /\ Counts(s) => ~CountedBefore(s)
          /\ Runs(s, "determine_results") =>
                 /\ ~CountedBefore(s)
                 /\ player_choice[s] # None
                 /\ opponent_choice[s] # None]_vars

\* the joiner's thread, having taken the ACK, calls connect in this step
AttemptsConnect ==
    \/ client_thread = "connect" /\ client_thread' # "connect" /\ gui'[J] # "dead"
    \/ orphan_thread = "connect" /\ orphan_thread' # "connect" /\ gui'[J] # "dead"

\* C32: whenever the joiner, having received the ACK, attempts its stream
\* connect, the host's server socket is bound and listening.
C32_ListeningAtConnect == [][AttemptsConnect => listening]_vars

\* side s has resolved every round of its game
AllResolved(s) == \A k \in 1..ChatRounds : results[s][k] # "none"

\* the session of side s is over: its thread ended and network_disconnected ran
SessionOver(s) ==
    /\ session_thread(s) = "done"
    /\ Pending(s, "network_disconnected") = 0
    /\ current_round[s] = NoRound

\* C33: in a connected session that nobody leaves, with one message per read
\* and users who choose whenever they can, both sides eventually have
\* resolved all rounds and run network_disconnected.
C33_GameCompletes ==
    (\A s \in Sides : current_round[s] = 1)
        ~> (\A s \in Sides : AllResolved(s) /\ SessionOver(s))

\* both sides are in a connected session
BothConnected == \A s \in Sides : current_round[s] # NoRound

\* C34: in every connected session the host and the joiner hold the same
\* total_rounds, also when the host cancelled and hosted again with another
\* number of rounds between the joiner's search and its join.
C34_SameTotalRounds == BothConnected => total_rounds[H] = total_rounds[J]

\* wins + losses + ties of side s
Tally(s) == user_profile[s].wins + user_profile[s].loses + user_profile[s].ties

\* C35: over one session the total added to a side's counters, by round
\* results and forfeits together, never exceeds total_rounds (the counters
\* start at 0 and a behaviour has one session): whenever the tally of a side
\* grows it stays within the total_rounds of its session.
C35_TallyWithinRounds ==
    [][\A s \in Sides : Tally(s)' > Tally(s) => Tally(s)' <= total_rounds[s]]_vars

\* the joiner has resolved every round of its game
JoinerResolvedAll ==
    /\ total_rounds[J] # NoRound
    /\ \A k \in 1..total_rounds[J] : results[J][k] # "none"

\* C36: when the session ends with stage game_complete, the joiner has
\* resolved all total_rounds rounds before its network_disconnected runs: the
\* reset that follows a received DISCONNECT game_complete finds every round
\* of the joiner counted.
C36_JoinerResolvesFirst ==
    [][(RunsCallback(J, "network_disconnected") /\ recv_disc[J].stage = "game_complete")
          => JoinerResolvedAll]_vars

\* the rounds below r are all resolved on side s
ResolvedBelow(s, r) == \A k \in 1..(r - 1) : results[s][k] # "none"

\* side s sends a GAME message in this step
SendsAnyGame(s) == \E c \in Choices : SendsGame(s, c)

\* C37: while both peers are in a connected session their current_round
\* values differ by at most 1, and a peer sends the GAME message of a round
\* only when it has resolved every earlier round.
C37_RoundsInStep ==
    [][/\ BothConnected' =>
              /\ current_round'[H] - current_round'[J] <= 1
              /\ current_round'[J] - current_round'[H] <= 1
       /\ \A s \in Sides :
              SendsAnyGame(s) =>
                  (current_round[s] # NoRound /\ ResolvedBelow(s, current_round[s]))]_vars

\* C37 witness: the host has resolved rounds 1 and 2 and sent its choice of
\* round 3, which is on its way to the joiner, still in round 2
C37_Witness ==
    /\ current_round[H] = 3 /\ current_round[J] = 2
    /\ \E i \in DOMAIN tcp[J] : tcp[J][i].kind = "GAME" /\ tcp[J][i].rnd = 3
    /\ ResolvedBelow(H, 3)

\* C38: a GAME message whose payload is not one of Rock, Paper, Scissors does
\* not set opponent_choice to an invalid value: opponent_choice of a side is
\* None or one of the three choices.
C38_ValidRemoteChoice ==
    \A s \in Sides : opponent_choice[s] \in Choices \cup {None}

\* C39: cancelling the mid-game exit confirmation leaves the application as
\* it was, allow_gui_update included: after every step of a running
\* application allow_gui_update is true, so that the end of the session
\* still dispatches network_disconnected.
C39_CancelChangesNothing ==
    [][\A s \in Sides : gui'[s] # "dead" => allow_gui_update'[s]]_vars

====
